---- MODULE Spec2Model ----
(***************************************************************************)
(* A model of ScreenCaptureApp (src/screen_capture_tool.py): the region    *)
(* selection state machine driven by pointer and key events, the capture   *)
(* history with its cursor, and the save / copy outputs.                   *)
(*                                                                         *)
(* Every handler of the Tk event loop is one action.  Pointer positions    *)
(* are drawn from finite sets of pixel coordinates; the 10-pixel           *)
(* thresholds are the program's own.                                       *)
(***************************************************************************)
EXTENDS Integers, Sequences, FiniteSets, TLC

VARIABLES
    pc,                     \* where the main thread is: start, session, dialog, poll (the
                            \* while test of run), body (of the loop), exited
    is_active,
    capture_requested,
    sessions,               \* capture sessions started so far
    start_x, start_y, end_x, end_y,
    is_selecting, is_resizing, is_moving,
    resize_mode,
    region_selected,
    move_start_x, move_start_y,
    move_offset_x, move_offset_y,
    last_adjust_mode,
    capture_history,
    capture_history_index,
    display,                \* rectangle the mask and labels were last drawn for, <<>> if none
    crop_box,               \* box handed to bg_screenshot.crop in this session, <<>> if none
    clipboard,              \* box put on the clipboard in this session, <<>> if none
    saved_file,             \* box written to a file in this session, <<>> if none
    last_commit,            \* Region last handed to save_current_capture_position, <<>> if none
    button_down,            \* the primary button is held (pointer stream is down, moves, up)
    restore_timer,          \* the after(200, restore_last_capture_and_activate) is pending
    last_restore,           \* the caller whose restore_last_capture last loaded an entry in this session
    downs,                  \* pointer-downs so far
    nudges,                 \* arrow-key presses so far
    root,                   \* the overlay window (and its canvas) exists
    bg_screenshot,          \* size <<w, h>> of the frozen bitmap, <<>> if None
    magnifier_timer,        \* the after(100, create_magnifier) is pending
    magnifier_window,       \* the magnifier window exists
    magnifier_box,          \* source box the magnifier shows, <<>> while withdrawn
    hide_magnifier_timer,   \* the after(500, hide_magnifier) of a nudge is pending
    should_quit,
    socket,                 \* single_instance.socket: none, unbound, listening, closed
    listener,               \* where the hotkey listener thread is: idle, quit, request
    screen,                 \* size <<w, h>> of the screen ImageGrab.grab() copies
    show_info,              \* the coordinate and size labels are drawn
    pointer,                \* position <<x, y>> of the pointer, <<>> where it is not followed
    other_instance,         \* another process of the program: absent, running (it holds the port), returned
    backlog,                \* data of the connections waiting on the listening socket
    signal_attempts,        \* calls of signal_existing_instance made by this process
    signalled,              \* the last check_for_signals called the callback
    help_shown              \* help_bg_rect is set: the help panel was drawn

rect     == <<start_x, start_y, end_x, end_y>>
flags    == <<is_selecting, is_resizing, is_moving, resize_mode, region_selected>>
moveVars == <<move_start_x, move_start_y, move_offset_x, move_offset_y>>
hist     == <<capture_history, capture_history_index>>
outVars  == <<crop_box, clipboard, saved_file, last_commit>>
procVars == <<pc, is_active, capture_requested, sessions>>
envVars  == <<button_down, restore_timer, last_restore, downs, nudges>>
winVars  == <<root, bg_screenshot, magnifier_timer, help_shown>>
magVars  == <<magnifier_window, magnifier_box, hide_magnifier_timer>>
peerVars == <<other_instance, backlog, signal_attempts, signalled>>
lifeVars == <<should_quit, socket, listener, screen, show_info, pointer, peerVars>>

vars == <<rect, flags, moveVars, last_adjust_mode, hist, display, outVars,
          procVars, envVars, winVars, magVars, lifeVars>>

-----------------------------------------------------------------------------
(* Bounds of the model *)

MaxSessions     == 2        \* capture sessions in a run, wide pointer grid
MaxPointerSessions == 1     \* of these, the sessions with pointer input
MaxSessionsNav  == 2        \* capture sessions in a run, middle pointer grid
MaxSessionsHist == 4        \* capture sessions in a run, narrow pointer grid
MaxSessionsLife == 3        \* capture sessions in a run of the whole life of the process
MaxSessionsView == 3        \* capture sessions in a run with the info and help toggles
MaxPointerSessionsView == 2 \* of these, the sessions with pointer input
MaxDowns        == 2        \* pointer-downs in a run
MaxNudges       == 1        \* arrow-key presses in a run
MaxBacklog      == 1        \* connections waiting on the socket

\* Pointer positions of the wide grid: pairs closer than the minimum size
\* (50,55 / 50,52), a pair exactly the minimum size apart (50,60), a point more
\* than 10 px inside the widest rectangle (100,100), and far corners.
PointerX == {50, 55, 60, 100, 400}
PointerY == {50, 52, 100, 300}

\* The pointer positions of the wide grid that are explored: the ends of a
\* drag below the minimum size, of one exactly 10 wide, of a large one, and
\* points on its top edge, right edge and more than 10 px inside it.
Pointer == {<<50, 50>>, <<55, 52>>, <<60, 100>>, <<100, 50>>, <<100, 100>>,
            <<400, 100>>, <<400, 300>>}

\* Pointer positions of the middle grid: resize, move and reversed drags.
PointerXNav == {50, 100, 400}
PointerYNav == {50, 100, 300}

\* Pointer positions of the narrow grid, used where many sessions are explored.
PointerXHist == {100, 400}
PointerYHist == {100, 300}

AllX == PointerX \cup PointerXNav \cup PointerXHist
AllY == PointerY \cup PointerYNav \cup PointerYHist

Keysyms == {"Left", "Right", "Up", "Down"}

\* The screen of the sessions explored with a pointer grid
ScreenWidth  == 500
ScreenHeight == 400

-----------------------------------------------------------------------------
(* Values and pure helpers *)

None == -1000000

resize_threshold == 10
MinSize == 10

Min(a, b) == IF a <= b THEN a ELSE b
Max(a, b) == IF a >= b THEN a ELSE b
Abs(a)    == IF a < 0 THEN -a ELSE a

\* x1 = min(start_x, end_x) ... y2 = max(start_y, end_y)
\* Variant: the stored points handed on in the order they were stored.
NormalizeAsStored(sx, sy, ex, ey) == <<sx, sy, ex, ey>>

Normalize(sx, sy, ex, ey) == <<Min(sx, ex), Min(sy, ey), Max(sx, ex), Max(sy, ey)>>

Handles == {"tl", "tr", "bl", "br", "left", "right", "top", "bottom"}

\* Variant: the edges tested before the corners.
classify_edges_first(sel, sx, sy, ex, ey, x, y) ==
    IF ~sel \/ sx = None THEN "None"
    ELSE LET n  == Normalize(sx, sy, ex, ey)
             x1 == n[1]
             y1 == n[2]
             x2 == n[3]
             y2 == n[4]
             t  == resize_threshold
         IN  IF Abs(x - x1) <= t /\ y1 <= y /\ y <= y2 THEN "left"
             ELSE IF Abs(x - x2) <= t /\ y1 <= y /\ y <= y2 THEN "right"
             ELSE IF Abs(y - y1) <= t /\ x1 <= x /\ x <= x2 THEN "top"
             ELSE IF Abs(y - y2) <= t /\ x1 <= x /\ x <= x2 THEN "bottom"
             ELSE IF Abs(x - x1) <= t /\ Abs(y - y1) <= t THEN "tl"
             ELSE IF Abs(x - x2) <= t /\ Abs(y - y1) <= t THEN "tr"
             ELSE IF Abs(x - x1) <= t /\ Abs(y - y2) <= t THEN "bl"
             ELSE IF Abs(x - x2) <= t /\ Abs(y - y2) <= t THEN "br"
             ELSE IF x1 <= x /\ x <= x2 /\ y1 <= y /\ y <= y2 THEN "inside"
             ELSE "None"

\* get_resize_mode on an explicit selection state
classify(sel, sx, sy, ex, ey, x, y) ==
    IF ~sel \/ sx = None THEN "None"
    ELSE LET n  == Normalize(sx, sy, ex, ey)
             x1 == n[1]
             y1 == n[2]
             x2 == n[3]
             y2 == n[4]
             t  == resize_threshold
         IN  IF Abs(x - x1) <= t /\ Abs(y - y1) <= t THEN "tl"
             ELSE IF Abs(x - x2) <= t /\ Abs(y - y1) <= t THEN "tr"
             ELSE IF Abs(x - x1) <= t /\ Abs(y - y2) <= t THEN "bl"
             ELSE IF Abs(x - x2) <= t /\ Abs(y - y2) <= t THEN "br"
             ELSE IF Abs(x - x1) <= t /\ y1 <= y /\ y <= y2 THEN "left"
             ELSE IF Abs(x - x2) <= t /\ y1 <= y /\ y <= y2 THEN "right"
             ELSE IF Abs(y - y1) <= t /\ x1 <= x /\ x <= x2 THEN "top"
             ELSE IF Abs(y - y2) <= t /\ x1 <= x /\ x <= x2 THEN "bottom"
             ELSE IF x1 <= x /\ x <= x2 /\ y1 <= y /\ y <= y2 THEN "inside"
             ELSE "None"

get_resize_mode(x, y) ==
    classify(region_selected, start_x, start_y, end_x, end_y, x, y)

\* The rectangle update_display draws the mask and the labels for.
update_display(sx, sy, ex, ey) == Normalize(sx, sy, ex, ey)

\* Variant: the side rectangles drawn over the full height of the screen.
dark_rects_full_height(n, w, h) ==
    (IF n[2] > 0 THEN << <<0, 0, w, n[2]>> >> ELSE <<>>) \o
    (IF n[4] < h THEN << <<0, n[4], w, h>> >> ELSE <<>>) \o
    (IF n[1] > 0 THEN << <<0, 0, n[1], h>> >> ELSE <<>>) \o
    (IF n[3] < w THEN << <<n[3], 0, w, h>> >> ELSE <<>>)

\* update_display: the dim rectangles drawn around the normalized box n on a
\* screen of w x h, in the order they are created: above, below, left, right.
dark_rects(n, w, h) ==
    (IF n[2] > 0 THEN << <<0, 0, w, n[2]>> >> ELSE <<>>) \o
    (IF n[4] < h THEN << <<0, n[4], w, h>> >> ELSE <<>>) \o
    (IF n[1] > 0 THEN << <<0, n[2], n[1], n[4]>> >> ELSE <<>>) \o
    (IF n[3] < w THEN << <<n[3], n[2], w, n[4]>> >> ELSE <<>>)

magnifier_size == 180
magnifier_zoom == 3

\* Variant: the box cut off at the edges of the bitmap instead of shifted.
source_box_shrinking(w, h, x, y) ==
    LET half_capture == (magnifier_size \div magnifier_zoom) \div 2
    IN  <<Max(0, x - half_capture), Max(0, y - half_capture),
          Min(w, x + half_capture), Min(h, y + half_capture)>>

\* update_magnifier: the box cropped from a w x h bitmap around the focus
\* (x, y), after the four edge tests in the order of the code.
source_box(w, h, x, y) ==
    LET capture_pixels == magnifier_size \div magnifier_zoom
        half_capture   == capture_pixels \div 2
        ax1 == IF x - half_capture < 0 THEN 0 ELSE x - half_capture
        ax2 == IF x - half_capture < 0 THEN capture_pixels ELSE x + half_capture
        ay1 == IF y - half_capture < 0 THEN 0 ELSE y - half_capture
        ay2 == IF y - half_capture < 0 THEN capture_pixels ELSE y + half_capture
        bx1 == IF ax2 > w THEN w - capture_pixels ELSE ax1
        bx2 == IF ax2 > w THEN w ELSE ax2
        by1 == IF ay2 > h THEN h - capture_pixels ELSE ay1
        by2 == IF ay2 > h THEN h ELSE ay2
    IN  <<bx1, by1, bx2, by2>>

\* update_magnifier creates the window when it is missing and, when there is
\* a bitmap, shows the source box around the focus.
update_magnifier(x, y) ==
    /\ magnifier_window' = TRUE
    /\ magnifier_box' = (IF bg_screenshot = <<>>
                         THEN magnifier_box
                         ELSE source_box(bg_screenshot[1], bg_screenshot[2], x, y))

\* hide_magnifier withdraws the window
hide_magnifier ==
    /\ magnifier_box' = <<>>
    /\ UNCHANGED magnifier_window

\* The focus on_mouse_down hands to the magnifier for a handle of the
\* normalized box n and a pointer at (x, y).
handle_focus(n, h, x, y) ==
    IF h = "tl" THEN <<n[1], n[2]>>
    ELSE IF h = "tr" THEN <<n[3], n[2]>>
    ELSE IF h = "bl" THEN <<n[1], n[4]>>
    ELSE IF h = "br" THEN <<n[3], n[4]>>
    ELSE IF h = "left" THEN <<n[1], y>>
    ELSE IF h = "right" THEN <<n[3], y>>
    ELSE IF h = "top" THEN <<x, n[2]>>
    ELSE <<x, n[4]>>

\* The focus on_arrow_key hands to the magnifier: edges at their midpoint.
nudge_focus(n, h) ==
    handle_focus(n, h, (n[1] + n[3]) \div 2, (n[2] + n[4]) \div 2)

\* capture_history.index(new_capture): 1-based position of the first equal entry, 0 if absent
IndexOf(h, e) ==
    IF \E i \in 1..Len(h) : h[i] = e
    THEN CHOOSE i \in 1..Len(h) : h[i] = e /\ \A j \in 1..(i - 1) : h[j] # e
    ELSE 0

-----------------------------------------------------------------------------
(* State after ScreenCaptureApp.__init__ *)

InitAt(bitmaps, pointers) ==
    /\ pc = "start"
    /\ is_active = FALSE
    /\ capture_requested = FALSE
    /\ sessions = 0
    /\ start_x = None /\ start_y = None /\ end_x = None /\ end_y = None
    /\ is_selecting = FALSE /\ is_resizing = FALSE /\ is_moving = FALSE
    /\ resize_mode = "None"
    /\ region_selected = FALSE
    /\ move_start_x = None /\ move_start_y = None
    /\ move_offset_x = None /\ move_offset_y = None
    /\ last_adjust_mode = "inside"
    /\ capture_history = <<>>
    /\ capture_history_index = -1
    /\ display = <<>>
    /\ crop_box = <<>> /\ clipboard = <<>> /\ saved_file = <<>>
    /\ last_commit = <<>>
    /\ button_down = FALSE
    /\ restore_timer = FALSE
    /\ last_restore = "none"
    /\ downs = 0
    /\ nudges = 0
    /\ root = FALSE
    /\ bg_screenshot = <<>>
    /\ magnifier_timer = FALSE
    /\ magnifier_window = FALSE
    /\ magnifier_box = <<>>
    /\ hide_magnifier_timer = FALSE
    /\ should_quit = FALSE
    /\ socket = "none"
    /\ listener = "idle"
    /\ screen \in bitmaps
    /\ show_info = TRUE
    /\ pointer \in pointers
    /\ other_instance = "absent"
    /\ backlog = <<>>
    /\ signal_attempts = 0
    /\ signalled = FALSE
    /\ help_shown = FALSE

\* The position of the pointer is not followed
InitOn(bitmaps) == InitAt(bitmaps, {<<>>})

Init == InitOn({<<ScreenWidth, ScreenHeight>>})

-----------------------------------------------------------------------------
(* Session start and end *)

\* Variant: a session start that also forgets the cursor.
activate_capture_mode_resets_cursor ==
    IF is_active
    THEN UNCHANGED vars
    ELSE /\ is_active' = TRUE
         /\ capture_requested' = FALSE
         /\ start_x' = None /\ start_y' = None /\ end_x' = None /\ end_y' = None
         /\ is_selecting' = FALSE /\ is_resizing' = FALSE /\ is_moving' = FALSE
         /\ resize_mode' = "None"
         /\ region_selected' = FALSE
         /\ last_adjust_mode' = "inside"
         /\ display' = <<>>
         /\ crop_box' = <<>> /\ clipboard' = <<>> /\ saved_file' = <<>>
         /\ restore_timer' = TRUE
         /\ last_restore' = "none"
         /\ button_down' = FALSE
         /\ bg_screenshot' = screen
         /\ root' = TRUE
         /\ magnifier_timer' = TRUE
         /\ help_shown' = FALSE
         /\ pc' = "session"
         /\ sessions' = sessions + 1
         /\ capture_history_index' = -1
         /\ UNCHANGED <<moveVars, capture_history, downs, nudges, magVars, last_commit>>

\* activate_capture_mode: resets the selection, grabs the screen, builds the
\* overlay, schedules the delayed restore and enters the Tk main loop.
activate_capture_mode ==
    IF is_active
    THEN UNCHANGED vars
    ELSE /\ is_active' = TRUE
         /\ capture_requested' = FALSE
         /\ start_x' = None /\ start_y' = None /\ end_x' = None /\ end_y' = None
         /\ is_selecting' = FALSE /\ is_resizing' = FALSE /\ is_moving' = FALSE
         /\ resize_mode' = "None"
         /\ region_selected' = FALSE
         /\ last_adjust_mode' = "inside"
         /\ display' = <<>>
         /\ crop_box' = <<>> /\ clipboard' = <<>> /\ saved_file' = <<>>
         /\ restore_timer' = TRUE
         /\ last_restore' = "none"
         /\ button_down' = FALSE
         /\ bg_screenshot' = screen
         /\ root' = TRUE
         /\ magnifier_timer' = TRUE
         /\ help_shown' = FALSE
         /\ pc' = "session"
         /\ sessions' = sessions + 1
         /\ UNCHANGED <<moveVars, hist, downs, nudges, magVars, last_commit>>

\* deactivate_capture_mode: destroys magnifier, window and canvas (and with
\* them every pending timer), drops the frozen bitmap; root.quit() lets the
\* main loop return to run().
release ==
    /\ magnifier_box' = <<>>
    /\ magnifier_window' = FALSE
    /\ root' = FALSE
    /\ display' = <<>>
    /\ restore_timer' = FALSE
    /\ magnifier_timer' = FALSE
    /\ hide_magnifier_timer' = FALSE
    /\ button_down' = FALSE
    /\ bg_screenshot' = <<>>
    /\ is_active' = FALSE
    /\ help_shown' = help_shown             \* help_bg_rect keeps the deleted item's id

deactivate_capture_mode ==
    /\ release
    /\ pc' = "poll"

\* A caller's restore_last_capture loaded an entry: no Region was active for
\* it and the history is not empty.
restores == capture_history # <<>>

\* The literal a second launch sends to the running instance
Token == "ACTIVATE_CAPTURE"

\* Variant: the port is never found in use.
is_already_running_never(in_use) == FALSE

\* SingleInstance.is_already_running: bind raises EADDRINUSE exactly when
\* another socket holds the port (in_use).
is_already_running(in_use) == in_use

\* run(): the port is free; the socket listens and the first session is
\* started directly.
RunStart(maxSessions) ==
    /\ pc = "start"
    /\ ~is_already_running(other_instance = "running")
    /\ sessions < maxSessions
    /\ socket' = "listening"
    /\ activate_capture_mode
    /\ UNCHANGED <<should_quit, listener, screen, show_info, pointer, peerVars>>

\* run(): the port is held by another instance; signal_existing_instance is
\* called, its result is not looked at, and run() returns.
RunSecond ==
    /\ pc = "start"
    /\ is_already_running(other_instance = "running")
    /\ socket' = "unbound"
    /\ signal_attempts' = signal_attempts + 1
    /\ pc' = "exited"
    /\ UNCHANGED <<rect, flags, moveVars, last_adjust_mode, hist, display, outVars,
                   is_active, capture_requested, sessions, envVars, winVars, magVars,
                   should_quit, listener, screen, show_info, pointer,
                   other_instance, backlog, signalled>>

\* run(): the polling loop starts a session when one was requested.
MainLoopPoll(maxSessions) ==
    /\ pc = "poll"
    /\ capture_requested /\ ~is_active
    /\ sessions < maxSessions
    /\ activate_capture_mode
    /\ UNCHANGED lifeVars

\* The keyboard listener's on_press for PrtSc (or Ctrl+Shift+4).
on_press_print_screen ==
    capture_requested' = (IF ~is_active THEN TRUE ELSE capture_requested)

-----------------------------------------------------------------------------
(* Pointer handlers *)

\* Variant: the move offset taken from the stored start point.
on_mouse_down_offset_from_start(x, y) ==
    LET mode == get_resize_mode(x, y) IN
    IF mode = "inside"
    THEN /\ is_moving' = TRUE
         /\ move_start_x' = x
         /\ move_start_y' = y
         /\ move_offset_x' = x - start_x
         /\ move_offset_y' = y - start_y
         /\ last_adjust_mode' = "inside"
         /\ UNCHANGED <<rect, is_selecting, is_resizing, resize_mode, region_selected,
                        display, magVars>>
    ELSE IF mode # "None"
    THEN /\ is_resizing' = TRUE
         /\ resize_mode' = mode
         /\ last_adjust_mode' = mode
         /\ LET f == handle_focus(Normalize(start_x, start_y, end_x, end_y), mode, x, y)
            IN  update_magnifier(f[1], f[2])
         /\ UNCHANGED <<rect, is_selecting, is_moving, region_selected, moveVars,
                        display, hide_magnifier_timer>>
    ELSE /\ start_x' = x /\ start_y' = y
         /\ end_x' = x /\ end_y' = y
         /\ is_selecting' = TRUE
         /\ region_selected' = FALSE
         /\ display' = <<>>
         /\ hide_magnifier
         /\ UNCHANGED <<is_resizing, is_moving, resize_mode, moveVars, last_adjust_mode,
                        hide_magnifier_timer>>

on_mouse_down(x, y) ==
    LET mode == get_resize_mode(x, y) IN
    IF mode = "inside"
    THEN /\ is_moving' = TRUE
         /\ move_start_x' = x
         /\ move_start_y' = y
         /\ move_offset_x' = x - Min(start_x, end_x)
         /\ move_offset_y' = y - Min(start_y, end_y)
         /\ last_adjust_mode' = "inside"
         /\ UNCHANGED <<rect, is_selecting, is_resizing, resize_mode, region_selected,
                        display, magVars>>
    ELSE IF mode # "None"
    THEN /\ is_resizing' = TRUE
         /\ resize_mode' = mode
         /\ last_adjust_mode' = mode
         /\ LET f == handle_focus(Normalize(start_x, start_y, end_x, end_y), mode, x, y)
            IN  update_magnifier(f[1], f[2])
         /\ UNCHANGED <<rect, is_selecting, is_moving, region_selected, moveVars,
                        display, hide_magnifier_timer>>
    ELSE /\ start_x' = x /\ start_y' = y
         /\ end_x' = x /\ end_y' = y
         /\ is_selecting' = TRUE
         /\ region_selected' = FALSE
         /\ display' = <<>>                        \* clear_display
         /\ hide_magnifier
         /\ UNCHANGED <<is_resizing, is_moving, resize_mode, moveVars, last_adjust_mode,
                        hide_magnifier_timer>>

\* Variant: the size taken as a signed difference of the stored points.
move_target_signed(x, y) ==
    LET width  == end_x - start_x
        height == end_y - start_y
        new_x  == x - move_offset_x
        new_y  == y - move_offset_y
    IN  <<new_x, new_y, new_x + width, new_y + height>>

\* The box move_selection stores for a pointer at (x, y).
move_target(x, y) ==
    LET width  == Abs(end_x - start_x)
        height == Abs(end_y - start_y)
        new_x  == x - move_offset_x
        new_y  == y - move_offset_y
    IN  <<new_x, new_y, new_x + width, new_y + height>>

move_selection(x, y) ==
    IF ~is_moving
    THEN UNCHANGED <<rect, display>>
    ELSE LET m == move_target(x, y) IN
         /\ start_x' = m[1] /\ start_y' = m[2]
         /\ end_x' = m[3] /\ end_y' = m[4]
         /\ display' = update_display(m[1], m[2], m[3], m[4])

\* The edges resize_selection computes for handle h and a pointer at (x, y),
\* from the normalized box n, before the minimum-size test.
resize_target(n, h, x, y) ==
    LET x1 == IF h \in {"left", "tl", "bl"} THEN x ELSE n[1]
        x2 == IF h \in {"right", "tr", "br"} THEN x ELSE n[3]
        y1 == IF h \in {"top", "tl", "tr"} THEN y ELSE n[2]
        y2 == IF h \in {"bottom", "bl", "br"} THEN y ELSE n[4]
    IN  <<x1, y1, x2, y2>>

\* The minimum-size test of resize_selection / on_arrow_key
too_small(r) == Abs(r[3] - r[1]) < MinSize \/ Abs(r[4] - r[2]) < MinSize

\* Variant: each axis accepted or rejected on its own.
resize_selection_per_axis(x, y) ==
    IF resize_mode = "None"
    THEN UNCHANGED <<rect, display>>
    ELSE LET n  == Normalize(start_x, start_y, end_x, end_y)
             r  == resize_target(n, resize_mode, x, y)
             kx == Abs(r[3] - r[1]) >= MinSize
             ky == Abs(r[4] - r[2]) >= MinSize
             q  == <<IF kx THEN r[1] ELSE n[1], IF ky THEN r[2] ELSE n[2],
                     IF kx THEN r[3] ELSE n[3], IF ky THEN r[4] ELSE n[4]>>
         IN  IF ~kx /\ ~ky
             THEN UNCHANGED <<rect, display>>
             ELSE /\ start_x' = q[1] /\ start_y' = q[2]
                  /\ end_x' = q[3] /\ end_y' = q[4]
                  /\ display' = update_display(q[1], q[2], q[3], q[4])

resize_selection(x, y) ==
    IF resize_mode = "None"
    THEN UNCHANGED <<rect, display>>
    ELSE LET r == resize_target(Normalize(start_x, start_y, end_x, end_y),
                                resize_mode, x, y)
         IN  IF too_small(r)
             THEN UNCHANGED <<rect, display>>
             ELSE /\ start_x' = r[1] /\ start_y' = r[2]
                  /\ end_x' = r[3] /\ end_y' = r[4]
                  /\ display' = update_display(r[1], r[2], r[3], r[4])

on_mouse_drag(x, y) ==
    /\ IF is_selecting
       THEN /\ end_x' = x /\ end_y' = y
            /\ display' = update_display(start_x, start_y, x, y)
            /\ update_magnifier(x, y)
            /\ UNCHANGED <<start_x, start_y>>
       ELSE IF is_resizing
       THEN resize_selection(x, y) /\ update_magnifier(x, y)
       ELSE IF is_moving
       THEN move_selection(x, y) /\ UNCHANGED <<magnifier_window, magnifier_box>>
       ELSE UNCHANGED <<rect, display, magnifier_window, magnifier_box>>
    /\ UNCHANGED <<flags, moveVars, last_adjust_mode, hide_magnifier_timer>>

\* Variant: the selection discarded only when both sides are short.
selection_too_small_both(sx, sy, ex, ey) ==
    Abs(ex - sx) < MinSize /\ Abs(ey - sy) < MinSize

\* The size test of on_mouse_up on the dragged start/end points
selection_too_small(sx, sy, ex, ey) ==
    Abs(ex - sx) < MinSize \/ Abs(ey - sy) < MinSize

\* Variant: the handle stays recorded when a Resizing drag ends.
on_mouse_up_keeps_handle(x, y) ==
    IF is_selecting
    THEN /\ is_selecting' = FALSE
         /\ end_x' = x /\ end_y' = y
         /\ IF selection_too_small(start_x, start_y, x, y)
            THEN /\ display' = <<>>
                 /\ start_x' = None /\ start_y' = None
                 /\ region_selected' = FALSE
            ELSE /\ region_selected' = TRUE
                 /\ display' = update_display(start_x, start_y, x, y)
                 /\ UNCHANGED <<start_x, start_y>>
         /\ hide_magnifier
         /\ UNCHANGED <<is_resizing, is_moving, resize_mode, moveVars, last_adjust_mode,
                        hide_magnifier_timer>>
    ELSE IF is_resizing
    THEN /\ is_resizing' = FALSE
         /\ hide_magnifier
         /\ UNCHANGED <<rect, is_selecting, is_moving, region_selected, moveVars,
                        last_adjust_mode, display, hide_magnifier_timer, resize_mode>>
    ELSE IF is_moving
    THEN /\ is_moving' = FALSE
         /\ move_start_x' = None /\ move_start_y' = None
         /\ UNCHANGED <<rect, is_selecting, is_resizing, resize_mode, region_selected,
                        move_offset_x, move_offset_y, last_adjust_mode, display, magVars>>
    ELSE UNCHANGED <<rect, flags, moveVars, last_adjust_mode, display, magVars>>

on_mouse_up(x, y) ==
    IF is_selecting
    THEN /\ is_selecting' = FALSE
         /\ end_x' = x /\ end_y' = y
         /\ IF selection_too_small(start_x, start_y, x, y)
            THEN /\ display' = <<>>                 \* clear_display
                 /\ start_x' = None /\ start_y' = None
                 /\ region_selected' = FALSE
            ELSE /\ region_selected' = TRUE
                 /\ display' = update_display(start_x, start_y, x, y)
                 /\ UNCHANGED <<start_x, start_y>>
         /\ hide_magnifier
         /\ UNCHANGED <<is_resizing, is_moving, resize_mode, moveVars, last_adjust_mode,
                        hide_magnifier_timer>>
    ELSE IF is_resizing
    THEN /\ is_resizing' = FALSE
         /\ resize_mode' = "None"
         /\ hide_magnifier
         /\ UNCHANGED <<rect, is_selecting, is_moving, region_selected, moveVars,
                        last_adjust_mode, display, hide_magnifier_timer>>
    ELSE IF is_moving
    THEN /\ is_moving' = FALSE
         /\ move_start_x' = None /\ move_start_y' = None
         /\ UNCHANGED <<rect, is_selecting, is_resizing, resize_mode, region_selected,
                        move_offset_x, move_offset_y, last_adjust_mode, display, magVars>>
    ELSE UNCHANGED <<rect, flags, moveVars, last_adjust_mode, display, magVars>>

\* <Button-1>, <B1-Motion>, <ButtonRelease-1> on the overlay canvas
\* on_mouse_move: outside a drag, the magnifier follows the handle under the
\* pointer and is withdrawn anywhere else.
on_mouse_move(x, y) ==
    LET mode == get_resize_mode(x, y) IN
    IF is_selecting \/ is_resizing \/ is_moving
    THEN UNCHANGED magVars
    ELSE IF mode # "None" /\ mode # "inside"
    THEN /\ LET f == handle_focus(Normalize(start_x, start_y, end_x, end_y), mode, x, y)
            IN  update_magnifier(f[1], f[2])
         /\ UNCHANGED hide_magnifier_timer
    ELSE /\ hide_magnifier
         /\ UNCHANGED hide_magnifier_timer

\* event.x, event.y of a pointer event: where the pointer is now, in the
\* behaviours that follow it
pointer_at(x, y) == IF pointer = <<>> THEN pointer ELSE <<x, y>>

MouseDown(x, y, maxDowns) ==
    /\ pc = "session" /\ ~button_down
    /\ downs < maxDowns
    /\ on_mouse_down(x, y)
    /\ button_down' = TRUE
    /\ downs' = downs + 1
    /\ pointer' = pointer_at(x, y)
    /\ UNCHANGED <<hist, outVars, procVars, restore_timer, last_restore, nudges,
                   winVars, should_quit, socket, listener, screen, show_info, peerVars>>

MouseDrag(x, y) ==
    /\ pc = "session" /\ button_down
    /\ on_mouse_drag(x, y)
    /\ pointer' = pointer_at(x, y)
    /\ UNCHANGED <<hist, outVars, procVars, envVars, winVars,
                   should_quit, socket, listener, screen, show_info, peerVars>>

\* <Motion> with no button held
MouseMove(x, y) ==
    /\ pc = "session" /\ ~button_down
    /\ on_mouse_move(x, y)
    /\ pointer' = pointer_at(x, y)
    /\ UNCHANGED <<rect, flags, moveVars, last_adjust_mode, hist, display, outVars,
                   procVars, envVars, winVars,
                   should_quit, socket, listener, screen, show_info, peerVars>>

MouseUp(x, y) ==
    /\ pc = "session" /\ button_down
    /\ on_mouse_up(x, y)
    /\ button_down' = FALSE
    /\ pointer' = pointer_at(x, y)
    /\ UNCHANGED <<hist, outVars, procVars, restore_timer, last_restore, downs, nudges,
                   winVars, should_quit, socket, listener, screen, show_info, peerVars>>

-----------------------------------------------------------------------------
(* History *)

\* Variant: every restore moves on to the entry after the cursor.
restore_index_advancing ==
    IF capture_history_index = -1
    THEN Len(capture_history) - 1
    ELSE (capture_history_index + 1) % Len(capture_history)

\* Variant: a cursor that is set goes back to the first entry.
restore_index_first ==
    IF capture_history_index = -1
    THEN Len(capture_history) - 1
    ELSE capture_history_index - capture_history_index

\* Variant: always the last entry, whatever the cursor.
restore_index_last == Len(capture_history) - 1

\* restore_last_capture: the index it loads from, and the entry
restore_index ==
    IF capture_history_index = -1
    THEN Len(capture_history) - 1
    ELSE capture_history_index

restore_entry == capture_history[restore_index + 1]

restore_last_capture ==
    IF capture_history # <<>>
    THEN /\ capture_history_index' = restore_index
         /\ start_x' = restore_entry[1] /\ start_y' = restore_entry[2]
         /\ end_x' = restore_entry[3] /\ end_y' = restore_entry[4]
         /\ region_selected' = TRUE
         /\ is_selecting' = FALSE
         /\ display' = update_display(restore_entry[1], restore_entry[2],
                                      restore_entry[3], restore_entry[4])
         /\ UNCHANGED capture_history
    ELSE UNCHANGED <<rect, region_selected, is_selecting, display, hist>>

\* Variant: Previous stops at the first entry instead of wrapping.
previous_index_clamped(i, n) ==
    IF i = -1 THEN n - 1
    ELSE IF i > 0 THEN i - 1
    ELSE 0

\* go_to_previous_capture / go_to_next_capture: the index they move to (0-based)
previous_index(i, n) ==
    IF i = -1 THEN n - 1
    ELSE IF i > 0 THEN i - 1
    ELSE n - 1

next_index(i, n) ==
    IF i = -1 THEN 0
    ELSE IF i < n - 1 THEN i + 1
    ELSE 0

\* The common tail of both navigation handlers: load entry i and redraw.
load_capture(i) ==
    LET e == capture_history[i + 1] IN
    /\ capture_history_index' = i
    /\ start_x' = e[1] /\ start_y' = e[2] /\ end_x' = e[3] /\ end_y' = e[4]
    /\ region_selected' = TRUE
    /\ is_selecting' = FALSE
    /\ display' = update_display(e[1], e[2], e[3], e[4])
    /\ UNCHANGED <<capture_history, is_resizing, is_moving, resize_mode, moveVars,
                   last_adjust_mode>>

go_to_previous_capture ==
    IF capture_history = <<>>
    THEN UNCHANGED <<rect, flags, moveVars, last_adjust_mode, hist, display>>
    ELSE load_capture(previous_index(capture_history_index, Len(capture_history)))

go_to_next_capture ==
    IF capture_history = <<>>
    THEN UNCHANGED <<rect, flags, moveVars, last_adjust_mode, hist, display>>
    ELSE load_capture(next_index(capture_history_index, Len(capture_history)))

\* Variant: an appended entry does not take the cursor with it.
save_keeps_cursor(h, i, sx, sy, ex, ey) ==
    IF sx # None /\ ex # None
    THEN LET new_capture    == Normalize(sx, sy, ex, ey)
             existing_index == IndexOf(h, new_capture)
         IN  IF existing_index > 0
             THEN <<h, existing_index - 1>>
             ELSE <<Append(h, new_capture), i>>
    ELSE <<h, i>>

\* Variant: no search for an equal entry, every commit appends.
save_always_appends(h, i, sx, sy, ex, ey) ==
    IF sx # None /\ ex # None
    THEN <<Append(h, Normalize(sx, sy, ex, ey)), Len(h)>>
    ELSE <<h, i>>

\* save_current_capture_position on history h with cursor i and the stored
\* points: the pair <<history, cursor>> afterwards.
save_current_capture_position(h, i, sx, sy, ex, ey) ==
    IF sx # None /\ ex # None
    THEN LET new_capture    == Normalize(sx, sy, ex, ey)
             existing_index == IndexOf(h, new_capture)
         IN  IF existing_index > 0
             THEN <<h, existing_index - 1>>
             ELSE <<Append(h, new_capture), Len(h)>>
    ELSE <<h, i>>

-----------------------------------------------------------------------------
(* Arrow keys *)

\* The edges on_arrow_key computes from the normalized box n for the last
\* adjust mode and the key, before the minimum-size test.
nudge_target(n, mode, keysym) ==
    LET delta_x == IF keysym = "Left" THEN -1 ELSE IF keysym = "Right" THEN 1 ELSE 0
        delta_y == IF keysym = "Up" THEN -1 ELSE IF keysym = "Down" THEN 1 ELSE 0
        x1 == IF mode \in {"inside", "tl", "bl", "left"} THEN n[1] + delta_x ELSE n[1]
        x2 == IF mode \in {"inside", "tr", "br", "right"} THEN n[3] + delta_x ELSE n[3]
        y1 == IF mode \in {"inside", "tl", "tr", "top"} THEN n[2] + delta_y ELSE n[2]
        y2 == IF mode \in {"inside", "bl", "br", "bottom"} THEN n[4] + delta_y ELSE n[4]
    IN  <<x1, y1, x2, y2>>

\* Variant: no minimum-size test on a nudge.
nudge_never_rejected(s, mode, keysym) == FALSE

\* on_arrow_key returns before storing anything when a handle nudge fails the
\* minimum-size test.
nudge_rejected(s, mode, keysym) ==
    /\ mode # "inside"
    /\ too_small(nudge_target(Normalize(s[1], s[2], s[3], s[4]), mode, keysym))

\* The stored points after on_arrow_key acted on the stored points s.
nudge_result(s, mode, keysym) ==
    IF nudge_rejected(s, mode, keysym)
    THEN s
    ELSE nudge_target(Normalize(s[1], s[2], s[3], s[4]), mode, keysym)

on_arrow_key(keysym) ==
    IF ~region_selected /\ capture_history = <<>>
    THEN UNCHANGED <<rect, flags, moveVars, last_adjust_mode, hist, display, magVars>>
    ELSE LET restored == ~region_selected
             s == IF restored THEN restore_entry ELSE rect
         IN  IF s[1] = None
             THEN UNCHANGED <<rect, flags, moveVars, last_adjust_mode, hist, display,
                              magVars>>
             ELSE LET r == nudge_result(s, last_adjust_mode, keysym) IN
                  /\ IF last_adjust_mode # "inside"
                        /\ ~nudge_rejected(s, last_adjust_mode, keysym)
                     THEN LET f == nudge_focus(r, last_adjust_mode) IN
                          /\ update_magnifier(f[1], f[2])
                          /\ hide_magnifier_timer' = TRUE
                     ELSE UNCHANGED magVars
                  /\ start_x' = r[1] /\ start_y' = r[2]
                  /\ end_x' = r[3] /\ end_y' = r[4]
                  /\ region_selected' = TRUE
                  /\ is_selecting' = (IF restored THEN FALSE ELSE is_selecting)
                  /\ capture_history_index' =
                        (IF restored THEN restore_index ELSE capture_history_index)
                  /\ display' =
                        (IF ~nudge_rejected(s, last_adjust_mode, keysym)
                         THEN update_display(r[1], r[2], r[3], r[4])
                         ELSE IF restored
                         THEN update_display(s[1], s[2], s[3], s[4])
                         ELSE display)
                  /\ UNCHANGED <<capture_history, is_resizing, is_moving, resize_mode,
                                 moveVars, last_adjust_mode>>

-----------------------------------------------------------------------------
(* Save and copy *)

\* Variant: the crop without the commit.
crop_without_commit(clip_ok) ==
    LET restored == start_x = None \/ end_x = None
        s   == IF restored THEN restore_entry ELSE rect
        box == Normalize(s[1], s[2], s[3], s[4])
    IN  /\ start_x' = s[1] /\ start_y' = s[2] /\ end_x' = s[3] /\ end_y' = s[4]
        /\ region_selected' = (IF restored THEN TRUE ELSE region_selected)
        /\ is_selecting' = (IF restored THEN FALSE ELSE is_selecting)
        /\ capture_history' = capture_history
        /\ capture_history_index' = (IF restored THEN restore_index
                                                 ELSE capture_history_index)
        /\ crop_box' = box
        /\ last_commit' = box
        /\ clipboard' = (IF clip_ok THEN box ELSE clipboard)
        /\ UNCHANGED <<is_resizing, is_moving, resize_mode, moveVars, last_adjust_mode>>

\* The part of save_screenshot and copy_to_clipboard up to the clipboard call:
\* restore when no Region is active, commit, crop, try the clipboard.
\* clip_ok: the clipboard call succeeded (its failure is swallowed).
commit_and_crop(clip_ok) ==
    LET restored == start_x = None \/ end_x = None
        s   == IF restored THEN restore_entry ELSE rect
        box == Normalize(s[1], s[2], s[3], s[4])
        c   == save_current_capture_position(
                   capture_history,
                   IF restored THEN restore_index ELSE capture_history_index,
                   s[1], s[2], s[3], s[4])
    IN  /\ start_x' = s[1] /\ start_y' = s[2] /\ end_x' = s[3] /\ end_y' = s[4]
        /\ region_selected' = (IF restored THEN TRUE ELSE region_selected)
        /\ is_selecting' = (IF restored THEN FALSE ELSE is_selecting)
        /\ capture_history' = c[1]
        /\ capture_history_index' = c[2]
        /\ crop_box' = box
        /\ last_commit' = box
        /\ clipboard' = (IF clip_ok THEN box ELSE clipboard)
        /\ UNCHANGED <<is_resizing, is_moving, resize_mode, moveVars, last_adjust_mode>>

\* save_screenshot up to the modal save dialog
save_screenshot(clip_ok) ==
    IF (start_x = None \/ end_x = None) /\ capture_history = <<>>
    THEN UNCHANGED vars
    ELSE /\ commit_and_crop(clip_ok)
         /\ display' = (IF start_x = None \/ end_x = None
                        THEN update_display(restore_entry[1], restore_entry[2],
                                            restore_entry[3], restore_entry[4])
                        ELSE display)
         /\ pc' = "dialog"
         /\ last_restore' = (IF start_x = None \/ end_x = None THEN "return" ELSE last_restore)
         /\ UNCHANGED <<saved_file, is_active, capture_requested, sessions,
                        button_down, restore_timer, downs, nudges,
                        winVars, magVars, lifeVars>>

\* filedialog.asksaveasfilename returns: the file is written if a path was
\* chosen, then the session ends.
save_dialog_return(confirmed) ==
    /\ saved_file' = (IF confirmed THEN crop_box ELSE saved_file)
    /\ deactivate_capture_mode
    /\ UNCHANGED <<rect, flags, moveVars, last_adjust_mode, hist, crop_box, clipboard, last_commit,
                   capture_requested, sessions, last_restore, downs, nudges, lifeVars>>

copy_to_clipboard(clip_ok) ==
    IF (start_x = None \/ end_x = None) /\ capture_history = <<>>
    THEN /\ deactivate_capture_mode
         /\ UNCHANGED <<rect, flags, moveVars, last_adjust_mode, hist, outVars,
                        capture_requested, sessions, last_restore, downs, nudges, lifeVars>>
    ELSE /\ commit_and_crop(clip_ok)
         /\ deactivate_capture_mode
         /\ last_restore' = (IF start_x = None \/ end_x = None THEN "escape" ELSE last_restore)
         /\ UNCHANGED <<saved_file, capture_requested, sessions, downs, nudges, lifeVars>>

-----------------------------------------------------------------------------
(* Events of a session *)

ArrowKey(keysym, maxNudges) ==
    /\ pc = "session"
    /\ nudges < maxNudges
    /\ on_arrow_key(keysym)
    /\ nudges' = nudges + 1
    /\ last_restore' = (IF ~region_selected /\ restores THEN "arrow" ELSE last_restore)
    /\ UNCHANGED <<outVars, procVars, button_down, restore_timer, downs, winVars, lifeVars>>

BackSpace ==
    /\ pc = "session"
    /\ go_to_previous_capture
    /\ UNCHANGED <<outVars, procVars, envVars, winVars, magVars, lifeVars>>

Tab ==
    /\ pc = "session"
    /\ go_to_next_capture
    /\ UNCHANGED <<outVars, procVars, envVars, winVars, magVars, lifeVars>>

Return(clip_ok) ==
    /\ pc = "session"
    /\ save_screenshot(clip_ok)

SaveDialog(confirmed) ==
    /\ pc = "dialog"
    /\ save_dialog_return(confirmed)

Escape(clip_ok) ==
    /\ pc = "session"
    /\ copy_to_clipboard(clip_ok)

\* toggle_info_display: <i> flips the labels and redraws an active Region
ToggleInfo ==
    /\ pc = "session"
    /\ show_info' = ~show_info
    /\ display' = (IF start_x # None /\ end_x # None
                   THEN update_display(start_x, start_y, end_x, end_y)
                   ELSE display)
    /\ UNCHANGED <<rect, flags, moveVars, last_adjust_mode, hist, outVars, procVars,
                   envVars, winVars, magVars, should_quit, socket, listener, screen, pointer,
                   peerVars>>

\* toggle_help_display: <h> draws the help panel or deletes it
ToggleHelp ==
    /\ pc = "session"
    /\ help_shown' = ~help_shown
    /\ UNCHANGED <<rect, flags, moveVars, last_adjust_mode, hist, display, outVars,
                   procVars, envVars, root, bg_screenshot, magnifier_timer, magVars,
                   lifeVars>>

\* after(100, create_magnifier) fires
MagnifierTimer ==
    /\ pc \in {"session", "dialog"}
    /\ magnifier_timer
    /\ magnifier_timer' = FALSE
    /\ magnifier_window' = TRUE
    /\ UNCHANGED <<rect, flags, moveVars, last_adjust_mode, hist, display, outVars,
                   procVars, envVars, root, bg_screenshot, help_shown, magnifier_box,
                   hide_magnifier_timer, lifeVars>>

\* after(500, hide_magnifier) of the last handle nudge fires
HideMagnifierTimer ==
    /\ pc \in {"session", "dialog"}
    /\ hide_magnifier_timer
    /\ hide_magnifier_timer' = FALSE
    /\ hide_magnifier
    /\ UNCHANGED <<rect, flags, moveVars, last_adjust_mode, hist, display, outVars,
                   procVars, envVars, winVars, lifeVars>>

\* after(200, restore_last_capture_and_activate) fires. Timers fire in the
\* order they fall due: create_magnifier (100 ms) before the restore (200 ms).
RestoreTimer ==
    /\ pc \in {"session", "dialog"}
    /\ restore_timer /\ ~magnifier_timer
    /\ restore_timer' = FALSE
    /\ restore_last_capture
    /\ last_restore' = (IF restores THEN "timer" ELSE last_restore)
    /\ UNCHANGED <<is_resizing, is_moving, resize_mode, moveVars, last_adjust_mode,
                   outVars, procVars, button_down, downs, nudges,
                   winVars, magVars, lifeVars>>

PrintScreen ==
    /\ on_press_print_screen
    /\ UNCHANGED <<rect, flags, moveVars, last_adjust_mode, hist, display, outVars,
                   pc, is_active, sessions, envVars, winVars, magVars, lifeVars>>

-----------------------------------------------------------------------------
(* The polling loop of run(), the quit shortcuts and the interrupt *)

\* What deactivate_capture_mode writes, and what a teardown leaves alone
releasedVars == <<magnifier_box, magnifier_window, root, display, restore_timer,
                  magnifier_timer, hide_magnifier_timer, button_down, bg_screenshot,
                  is_active, help_shown>>
keptVars == <<rect, flags, moveVars, last_adjust_mode, hist, outVars,
              capture_requested, sessions, last_restore, downs, nudges, screen, show_info, pointer, peerVars>>

\* Variant: the listening socket is left open.
cleanup_skipped == UNCHANGED socket

\* SingleInstance.cleanup
cleanup == socket' = (IF socket = "listening" THEN "closed" ELSE socket)

\* Variant: the loop never starts a session.
poll_starts_never(requested) == FALSE

\* run(): the test that starts a session from the loop
poll_starts(requested) == requested /\ ~is_active

\* run(): the while test lets the loop go on
MainLoopEnter ==
    /\ pc = "poll" /\ ~should_quit
    /\ pc' = "body"
    /\ UNCHANGED <<releasedVars, keptVars, should_quit, socket, listener>>

\* Variant: any data received counts as the token.
received_any(data) == data # ""

\* check_for_signals: the test of the data received
received(data) == data = Token

\* A connection the client has reset: recv raises on it.
Reset == "ECONNRESET"

\* run(): one pass of the loop body. check_for_signals accepts a waiting
\* connection of the open socket and calls the callback when the data
\* received is the token; a recv that raises, an accept that times out
\* (nothing waits) or raises (the socket is closed) sets nothing. Then a
\* session is started if one is requested and none is active.
MainLoopBody ==
    /\ pc = "body"
    /\ LET accepted  == socket = "listening" /\ backlog # <<>>
           called    == accepted /\ Head(backlog) # Reset /\ received(Head(backlog))
           requested == capture_requested \/ called
       IN  /\ backlog' = (IF accepted THEN Tail(backlog) ELSE backlog)
           /\ signalled' = called
           /\ IF poll_starts(requested)
              THEN /\ activate_capture_mode
                   /\ UNCHANGED <<should_quit, socket, listener, screen, show_info,
                                  pointer, other_instance, signal_attempts>>
              ELSE /\ pc' = "poll"
                   /\ capture_requested' = requested
                   /\ UNCHANGED <<rect, flags, moveVars, last_adjust_mode, hist, outVars,
                                  sessions, last_restore, downs, nudges,
                                  releasedVars, should_quit, socket, listener, screen,
                                  show_info, pointer, other_instance, signal_attempts>>

\* A client connects to the port and sends data: the connection waits
\* until the loop accepts it (listen(1)).
Connect(data) ==
    /\ socket = "listening"
    /\ Len(backlog) < MaxBacklog
    /\ backlog' = Append(backlog, data)
    /\ UNCHANGED <<rect, flags, moveVars, last_adjust_mode, hist, display, outVars,
                   procVars, envVars, winVars, magVars,
                   should_quit, socket, listener, screen, show_info, pointer,
                   other_instance, signal_attempts, signalled>>

\* Another process of the program is launched. It finds the port in use and
\* signals this one (connected: the connect and the send went through), or
\* it takes the free port and runs its own sessions.
OtherLaunch(connected) ==
    /\ other_instance = "absent"
    /\ IF is_already_running(socket = "listening")
       THEN /\ other_instance' = "returned"
            /\ backlog' = (IF connected /\ Len(backlog) < MaxBacklog
                           THEN Append(backlog, Token)
                           ELSE backlog)
       ELSE /\ other_instance' = "running"
            /\ UNCHANGED backlog
    /\ UNCHANGED <<rect, flags, moveVars, last_adjust_mode, hist, display, outVars,
                   procVars, envVars, winVars, magVars,
                   should_quit, socket, listener, screen, show_info, pointer,
                   signal_attempts, signalled>>

\* run(): the finally clause
run_finally ==
    /\ cleanup
    /\ release
    /\ pc' = "exited"

\* run(): the while test fails on should_quit
MainLoopExit ==
    /\ pc = "poll" /\ should_quit
    /\ run_finally
    /\ UNCHANGED <<keptVars, should_quit, listener>>

\* run(): KeyboardInterrupt raised in the loop
Interrupt ==
    /\ pc \in {"poll", "body"}
    /\ run_finally
    /\ UNCHANGED <<keptVars, should_quit, listener>>

signal_handler ==
    /\ should_quit' = TRUE
    /\ IF is_active THEN release ELSE UNCHANGED releasedVars
    /\ cleanup

\* SIGINT: the handler runs on the main thread and sys.exit(0) ends the process
SigInt ==
    /\ pc # "exited"
    /\ signal_handler
    /\ pc' = "exited"
    /\ UNCHANGED <<keptVars, listener>>

\* SIGINT while the loop body waits in check_for_signals: the handler has
\* run, its SystemExit is raised inside the try and the bare except drops it.
SigIntSwallowed ==
    /\ pc = "body"
    /\ signal_handler
    /\ UNCHANGED <<pc, keptVars, listener>>

\* quit_program: <Control-c> in the overlay
quit_program ==
    /\ should_quit' = TRUE
    /\ release
    /\ cleanup
    /\ pc' = "exited"

QuitProgram ==
    /\ pc = "session"
    /\ quit_program
    /\ UNCHANGED <<keptVars, listener>>

\* The keyboard listener's on_press for Ctrl+C, on the listener thread:
\* first the flag,
ListenerQuitFlag ==
    /\ pc # "exited" /\ listener = "idle"
    /\ should_quit' = TRUE
    /\ listener' = "quit"
    /\ UNCHANGED <<pc, releasedVars, keptVars, socket>>

\* then deactivate_capture_mode if a session is active. returns: root.quit()
\* called from this thread made the Tk main loop of the main thread return
\* (the call may also raise here, and the exception is dropped).
ListenerQuitDeactivate(returns) ==
    /\ pc # "exited" /\ listener = "quit"
    /\ listener' = "idle"
    /\ IF is_active
       THEN /\ release
            /\ pc' = (IF pc = "session" /\ returns THEN "poll" ELSE pc)
       ELSE UNCHANGED <<releasedVars, pc>>
    /\ UNCHANGED <<keptVars, should_quit, socket>>

\* The keyboard listener's on_press for PrtSc (or Ctrl+Shift+4), on the
\* listener thread, as the two steps the main thread can run between:
\* first the test of is_active,
ListenerRequestTest ==
    /\ pc # "exited" /\ listener = "idle"
    /\ ~is_active
    /\ listener' = "request"
    /\ UNCHANGED <<pc, releasedVars, keptVars, should_quit, socket>>

\* then the assignment of the flag.
ListenerRequestSet ==
    /\ pc # "exited" /\ listener = "request"
    /\ capture_requested' = TRUE
    /\ listener' = "idle"
    /\ UNCHANGED <<rect, flags, moveVars, last_adjust_mode, hist, display, outVars,
                   pc, is_active, sessions, envVars, winVars, magVars,
                   should_quit, socket, screen, show_info, pointer, peerVars>>

-----------------------------------------------------------------------------
(* Specifications *)

NextOn(P, maxSessions, pointerSessions, maxDowns, maxNudges) ==
    \/ RunStart(maxSessions)
    \/ MainLoopPoll(maxSessions)
    \/ PrintScreen
    \/ \E p \in P : sessions <= pointerSessions /\ MouseDown(p[1], p[2], maxDowns)
    \/ \E p \in P : MouseDrag(p[1], p[2])
    \/ \E p \in P : MouseUp(p[1], p[2])
    \/ \E k \in Keysyms : ArrowKey(k, maxNudges)
    \/ BackSpace
    \/ Tab
    \/ \E ok \in BOOLEAN : Return(ok)
    \/ \E confirmed \in BOOLEAN : SaveDialog(confirmed)
    \/ \E ok \in BOOLEAN : Escape(ok)
    \/ MagnifierTimer
    \/ RestoreTimer
    \/ HideMagnifierTimer

\* The wide pointer grid: the geometry of select, resize, move in one session,
\* and a second session driven by the keyboard and the restore timer.
Next == NextOn(Pointer, MaxSessions, MaxPointerSessions, MaxDowns, MaxNudges)
Spec == Init /\ [][Next]_vars

\* Two sessions, the middle pointer grid: geometry together with a history.
NextNav == NextOn(PointerXNav \X PointerYNav, MaxSessionsNav, MaxSessionsNav, MaxDowns, MaxNudges)
SpecNav == Init /\ [][NextNav]_vars

\* Many sessions, the narrow pointer grid: the history and its cursor.
NextHist == NextOn(PointerXHist \X PointerYHist, MaxSessionsHist, MaxSessionsHist, MaxDowns, MaxNudges)
SpecHist == Init /\ [][NextHist]_vars

\* One session on bitmaps of several sizes, driven by the pointer alone: the
\* magnifier over the handles of the Regions that fit on the bitmap.
Bitmaps == {<<50, 40>>, <<60, 60>>, <<100, 80>>}
PointerMag == {5, 45, 99} \X {10, 39, 79}
OnScreen(p) == p[1] < screen[1] /\ p[2] < screen[2]

InitMag == InitOn(Bitmaps)

NextMag ==
    \/ RunStart(MaxPointerSessions)
    \/ \E p \in PointerMag : OnScreen(p) /\ MouseDown(p[1], p[2], MaxDowns)
    \/ \E p \in PointerMag : OnScreen(p) /\ MouseDrag(p[1], p[2])
    \/ \E p \in PointerMag : OnScreen(p) /\ MouseUp(p[1], p[2])
    \/ \E p \in PointerMag : OnScreen(p) /\ MouseMove(p[1], p[2])
    \/ MagnifierTimer
    \/ RestoreTimer
    \/ ToggleInfo
    \/ ToggleHelp

SpecMag == InitMag /\ [][NextMag]_vars

\* Three sessions on three pointer positions with every key of the overlay:
\* the history and its cursor under pointer input, nudges, navigation,
\* commits and the info and help toggles.
PointerView == {<<100, 100>>, <<400, 300>>, <<100, 300>>}

NextView ==
    \/ NextOn(PointerView, MaxSessionsView, MaxPointerSessionsView, MaxDowns, MaxNudges)
    \/ ToggleInfo
    \/ ToggleHelp

SpecView == Init /\ [][NextView]_vars

\* Two sessions with pointer input and the hover of the pointer: a large
\* Region, a smaller one whose corner lies well inside the large one, and the
\* history keys while the pointer rests on that corner. The button goes down
\* where the pointer is: the pointer gets there by <Motion> events.
PointerHover == {<<100, 100>>, <<250, 200>>, <<400, 300>>}

NextHover ==
    \/ RunStart(MaxSessions)
    \/ MainLoopPoll(MaxSessions)
    \/ PrintScreen
    \/ \E p \in PointerHover : MouseMove(p[1], p[2])
    \/ \E p \in PointerHover : pointer = p /\ MouseDown(p[1], p[2], MaxDowns)
    \/ \E p \in PointerHover : MouseDrag(p[1], p[2])
    \/ \E p \in PointerHover : pointer = p /\ MouseUp(p[1], p[2])
    \/ \E k \in Keysyms : ArrowKey(k, MaxNudges)
    \/ BackSpace
    \/ Tab
    \/ \E ok \in BOOLEAN : Return(ok)
    \/ \E confirmed \in BOOLEAN : SaveDialog(confirmed)
    \/ \E ok \in BOOLEAN : Escape(ok)
    \/ MagnifierTimer
    \/ RestoreTimer
    \/ HideMagnifierTimer

InitHover == InitAt({<<ScreenWidth, ScreenHeight>>}, PointerHover)

SpecHover == InitHover /\ [][NextHover]_vars

\* The whole life of the process: sessions with one drag, Enter and Escape,
\* the polling loop step by step, both quit shortcuts and the interrupt.
\* The handlers of the overlay are followed while its session is active.
PointerLife == {<<100, 100>>, <<400, 300>>}

\* What a client may send: the token, the token and more, nothing.
Payloads == {Token, "ACTIVATE_CAPTURE\n", ""}

NextLife ==
    \/ RunStart(MaxSessionsLife)
    \/ RunSecond
    \/ \E connected \in BOOLEAN : sessions < MaxSessionsLife /\ OtherLaunch(connected)
    \/ \E data \in Payloads \cup {Reset} : sessions < MaxSessionsLife /\ Connect(data)
    \/ MainLoopEnter
    \/ MainLoopBody
    \/ MainLoopExit
    \/ Interrupt
    \/ SigInt
    \/ SigIntSwallowed
    \/ QuitProgram
    \/ ListenerQuitFlag
    \/ \E returns \in BOOLEAN : ListenerQuitDeactivate(returns)
    \/ pc # "exited" /\ listener = "idle" /\ sessions < MaxSessionsLife /\ PrintScreen
    \/ \E p \in PointerLife : is_active /\ MouseDown(p[1], p[2], MaxDowns)
    \/ \E p \in PointerLife : is_active /\ MouseDrag(p[1], p[2])
    \/ \E p \in PointerLife : is_active /\ MouseUp(p[1], p[2])
    \/ \E ok \in BOOLEAN : is_active /\ Return(ok)
    \/ \E confirmed \in BOOLEAN : SaveDialog(confirmed)
    \/ \E ok \in BOOLEAN : is_active /\ Escape(ok)
    \/ is_active /\ MagnifierTimer
    \/ is_active /\ RestoreTimer

\* The main thread runs: the steps of run() that wait for nothing but the
\* scheduler are taken when they stay enabled.
FairLife ==
    /\ WF_vars(RunStart(MaxSessionsLife))
    /\ WF_vars(RunSecond)
    /\ WF_vars(MainLoopEnter)
    /\ WF_vars(MainLoopBody)
    /\ WF_vars(MainLoopExit)

SpecLife == Init /\ [][NextLife]_vars /\ FairLife

\* The listener thread against the main thread: the capture shortcut with
\* its test and its assignment as separate steps, the quit shortcut, the
\* polling loop step by step, sessions ended by Escape or by Enter and the
\* dialog. No signal is delivered.
NextRace ==
    \/ RunStart(MaxSessionsLife)
    \/ MainLoopEnter
    \/ MainLoopBody
    \/ MainLoopExit
    \/ sessions < MaxSessionsLife /\ ListenerRequestTest
    \/ ListenerRequestSet
    \/ ListenerQuitFlag
    \/ \E returns \in BOOLEAN : ListenerQuitDeactivate(returns)
    \/ \E p \in PointerLife : MouseDown(p[1], p[2], MaxDowns)
    \/ \E p \in PointerLife : MouseDrag(p[1], p[2])
    \/ \E p \in PointerLife : MouseUp(p[1], p[2])
    \/ \E ok \in BOOLEAN : Return(ok)
    \/ \E confirmed \in BOOLEAN : SaveDialog(confirmed)
    \/ \E ok \in BOOLEAN : Escape(ok)
    \/ MagnifierTimer
    \/ RestoreTimer

SpecRace == Init /\ [][NextRace]_vars

-----------------------------------------------------------------------------
(* Sanity: no handler reads a missing coordinate (Python would raise TypeError) *)

NoTypeError ==
    /\ (start_x = None) = (start_y = None)
    /\ (end_x = None) = (end_y = None)
    /\ start_x # None => end_x # None
    /\ region_selected => start_x # None
    /\ (is_selecting \/ is_resizing \/ is_moving) => start_x # None
    /\ is_moving => move_offset_x # None /\ move_offset_y # None
    /\ is_resizing = (resize_mode # "None")

-----------------------------------------------------------------------------
(* Vocabulary of the properties *)

IsNormalized(r) == r[1] <= r[3] /\ r[2] <= r[4]
Width(r)  == r[3] - r[1]
Height(r) == r[4] - r[2]

\* The normalized Region of the stored points
Region == Normalize(start_x, start_y, end_x, end_y)

Idle == ~is_selecting /\ ~is_resizing /\ ~is_moving

HistoryIndices == 1..Len(capture_history)

\* h is an initial part of g
IsPrefix(h, g) == Len(h) <= Len(g) /\ \A i \in 1..Len(h) : h[i] = g[i]

\* The selection state machine and the history are left as they are
ProgramUnchanged == UNCHANGED <<rect, flags, moveVars, last_adjust_mode, hist, display>>

-----------------------------------------------------------------------------
(* C1: every rectangle handed to a consumer -- each history entry, the       *)
(* rectangle the mask and labels are drawn for, the box cropped by save or   *)
(* copy (and so what reaches the clipboard or a file) -- has x1 <= x2 and    *)
(* y1 <= y2, whatever the order of the stored start and end points.          *)

C1_ConsumersNormalized ==
    /\ \A i \in HistoryIndices : IsNormalized(capture_history[i])
    /\ display # <<>> => IsNormalized(display)
    /\ crop_box # <<>> => IsNormalized(crop_box)
    /\ clipboard # <<>> => IsNormalized(clipboard)
    /\ saved_file # <<>> => IsNormalized(saved_file)

\* A selection dragged up and to the left was committed and cropped.
C1_Witness ==
    /\ start_x # None
    /\ start_x > end_x /\ start_y > end_y
    /\ crop_box = <<end_x, end_y, start_x, start_y>>
    /\ capture_history # <<>>
    /\ capture_history[capture_history_index + 1] = crop_box

-----------------------------------------------------------------------------
(* C2: every Region stored in the history list has width >= 10 and           *)
(* height >= 10, also when Enter or Escape commits while a selection drag is *)
(* still in progress.                                                        *)

C2_HistoryMinSize ==
    \A i \in HistoryIndices :
        /\ Width(capture_history[i]) >= MinSize
        /\ Height(capture_history[i]) >= MinSize

-----------------------------------------------------------------------------
(* C3: a pointer-move during a Resizing drag with handle h leaves the        *)
(* normalized coordinates not associated with h as they were, for every      *)
(* pointer position.                                                         *)

\* The coordinates (1: x1, 2: y1, 3: x2, 4: y2) a handle is associated with
Associated(h) ==
    CASE h = "tl"     -> {1, 2}
      [] h = "tr"     -> {3, 2}
      [] h = "bl"     -> {1, 4}
      [] h = "br"     -> {3, 4}
      [] h = "left"   -> {1}
      [] h = "right"  -> {3}
      [] h = "top"    -> {2}
      [] h = "bottom" -> {4}
      [] OTHER        -> {}

C3_ResizeKeepsOtherEdges ==
    [][\A x \in AllX, y \in AllY :
          (is_resizing /\ ~is_selecting /\ MouseDrag(x, y)) =>
              \A i \in (1..4) \ Associated(resize_mode) : Region'[i] = Region[i]]_vars

-----------------------------------------------------------------------------
(* C4: a pointer-move during Moving keeps the normalized width and height    *)
(* and puts the normalized top-left at pointer - offset, the offset being    *)
(* the one recorded at pointer-down; a pointer-move at the pointer-down      *)
(* position would store the Region as it is (no jump).                       *)

C4_MovePreservesSize ==
    [][\A x \in AllX, y \in AllY :
          /\ (is_moving /\ ~is_selecting /\ ~is_resizing /\ MouseDrag(x, y)) =>
                /\ Width(Region') = Width(Region)
                /\ Height(Region') = Height(Region)
                /\ Region'[1] = x - move_offset_x
                /\ Region'[2] = y - move_offset_y
                /\ move_offset_x' = move_offset_x
                /\ move_offset_y' = move_offset_y
          /\ (~is_moving /\ is_moving' /\ MouseDown(x, y, downs + 1)) =>
                /\ Region' = Region
                /\ x - move_offset_x' = Region[1]
                /\ y - move_offset_y' = Region[2]]_vars

\* A Region is being moved and is away from where it was at pointer-down.
C4_Witness ==
    /\ is_moving
    /\ move_start_x # None
    /\ Region[1] # move_start_x - move_offset_x
    /\ Region[2] # move_start_y - move_offset_y

-----------------------------------------------------------------------------
(* C5: the history list only grows at its end and its entries stay pairwise  *)
(* distinct; committing a Region not yet present appends it and puts the     *)
(* cursor on the new last index; committing a Region already present leaves  *)
(* the list as it is and puts the cursor on that entry.                      *)

Commits(R) ==
    IF \E i \in HistoryIndices : capture_history[i] = R
    THEN /\ capture_history' = capture_history
         /\ capture_history[capture_history_index' + 1] = R
    ELSE /\ capture_history' = Append(capture_history, R)
         /\ capture_history_index' = Len(capture_history') - 1

C5_HistoryAppendOnly ==
    [][/\ IsPrefix(capture_history, capture_history')
       /\ Len(capture_history') <= Len(capture_history) + 1
       /\ \A i, j \in HistoryIndices :
              capture_history[i] = capture_history[j] => i = j
       /\ \A ok \in BOOLEAN :
              (pc' # "session" /\ start_x # None /\ end_x # None
                                   /\ (Return(ok) \/ Escape(ok)))
                  => Commits(Region)]_vars

\* A Region already in the list, and not its last entry, was committed again.
C5_Witness ==
    /\ Len(capture_history) >= 2
    /\ capture_history_index < Len(capture_history) - 1
    /\ crop_box # <<>>
    /\ crop_box = capture_history[capture_history_index + 1]

-----------------------------------------------------------------------------
(* C6: with n entries and cursor i, Backspace moves the cursor to i-1, or to *)
(* n-1 from 0; Tab moves it to i+1, or to 0 from n-1; the Region becomes the *)
(* entry at the cursor; with no entry neither changes anything; Tab followed *)
(* by Backspace is back at the same cursor.                                  *)

C6_NavigationWraps ==
    [][LET n == Len(capture_history)
           i == capture_history_index
       IN  /\ (BackSpace /\ n > 0 /\ i >= 0) =>
                  /\ capture_history_index' = (IF i > 0 THEN i - 1 ELSE n - 1)
                  /\ rect' = capture_history[capture_history_index' + 1]
                  /\ capture_history' = capture_history
           /\ (Tab /\ n > 0 /\ i >= 0) =>
                  /\ capture_history_index' = (IF i < n - 1 THEN i + 1 ELSE 0)
                  /\ rect' = capture_history[capture_history_index' + 1]
                  /\ capture_history' = capture_history
           /\ ((BackSpace \/ Tab) /\ n = 0) => ProgramUnchanged
           /\ (n > 0 /\ i >= 0) =>
                  /\ previous_index(next_index(i, n), n) = i
                  /\ next_index(previous_index(i, n), n) = i]_vars

\* Three entries were committed in three sessions (the cursor was then on the
\* last one), and in the fourth the cursor is on the first with its Region loaded.
C6_Witness ==
    /\ Len(capture_history) = 3
    /\ sessions = 4
    /\ pc = "session"
    /\ crop_box = <<>>
    /\ capture_history_index = 0
    /\ rect = capture_history[1]
    /\ last_restore = "none"

-----------------------------------------------------------------------------
(* C7: Enter and Escape with an active Region R commit normalize(R), so that *)
(* the entry at the cursor is normalize(R), and crop exactly normalize(R);   *)
(* the commit stays whether the save dialog is confirmed or cancelled and    *)
(* whether or not the clipboard call fails.  Dragging (100,100) to (400,300) *)
(* and pressing Enter on an empty history gives [(100,100,400,300)], cursor 0.*)

C7_CommitThenCrop ==
    [][/\ \A ok \in BOOLEAN :
              (pc' # "session" /\ start_x # None /\ end_x # None
                                   /\ (Return(ok) \/ Escape(ok))) =>
                  /\ capture_history_index' \in 0..(Len(capture_history') - 1)
                  /\ capture_history'[capture_history_index' + 1] = Region
                  /\ crop_box' = Region
                  /\ clipboard' = (IF ok THEN Region ELSE clipboard)
       /\ \A ok \in BOOLEAN :
              (capture_history = <<>> /\ rect = <<100, 100, 400, 300>> /\ Return(ok)) =>
                  /\ capture_history' = << <<100, 100, 400, 300>> >>
                  /\ capture_history_index' = 0
       /\ \A confirmed \in BOOLEAN :
              SaveDialog(confirmed) =>
                  /\ UNCHANGED <<hist, crop_box>>
                  /\ saved_file' = (IF confirmed THEN crop_box ELSE saved_file)]_vars

\* The save dialog is open after the drag (100,100)-(400,300) and Enter, the
\* clipboard call has failed, and the commit is in the history.
C7_Witness ==
    /\ pc = "dialog"
    /\ clipboard = <<>>
    /\ rect = <<100, 100, 400, 300>>
    /\ crop_box = <<100, 100, 400, 300>>
    /\ capture_history = << <<100, 100, 400, 300>> >>
    /\ capture_history_index = 0

-----------------------------------------------------------------------------
(* C8: an arrow key pressed while no Region is selected and the history is   *)
(* not empty restores, before the 1-px nudge, the LAST entry of the history, *)
(* whatever navigation happened earlier; with an empty history the key       *)
(* changes nothing.                                                          *)

C8_ArrowRestoresLastEntry ==
    [][\A k \in Keysyms :
          /\ (~region_selected /\ capture_history # <<>> /\ ArrowKey(k, nudges + 1)) =>
                rect' = nudge_result(capture_history[Len(capture_history)],
                                     last_adjust_mode, k)
          /\ (~region_selected /\ capture_history = <<>> /\ ArrowKey(k, nudges + 1)) =>
                ProgramUnchanged]_vars

(* C8 as amended: the entry restored is the one at the cursor, which is the  *)
(* last entry only while neither navigation nor the commit of an earlier     *)
(* entry has moved the cursor; the cursor stays where it is; with an empty   *)
(* history the key changes nothing.                                          *)

C8_ArrowRestoresCursorEntry ==
    [][\A k \in Keysyms :
          /\ (~region_selected /\ capture_history # <<>> /\ capture_history_index >= 0
                               /\ ArrowKey(k, nudges + 1)) =>
                /\ rect' = nudge_result(capture_history[capture_history_index + 1],
                                        last_adjust_mode, k)
                /\ UNCHANGED hist
                /\ region_selected'
          /\ (~region_selected /\ capture_history = <<>> /\ ArrowKey(k, nudges + 1)) =>
                ProgramUnchanged]_vars

\* An arrow key has restored an entry that is not the last one.
C8_Witness ==
    /\ last_restore = "arrow"
    /\ pc = "session"
    /\ region_selected
    /\ capture_history_index >= 0
    /\ capture_history_index < Len(capture_history) - 1

-----------------------------------------------------------------------------
(* C9: with a selected Region and last adjust mode m an arrow key moves the  *)
(* normalized Region by 1 px along the key's axis: all four coordinates for  *)
(* "inside", for a handle only its coordinates on that axis; a handle nudge  *)
(* whose result is narrower or lower than 10 leaves the Region as it is.     *)

Axis(k)  == IF k \in {"Left", "Right"} THEN {1, 3} ELSE {2, 4}
Delta(k) == IF k \in {"Left", "Up"} THEN -1 ELSE 1
Moved(m) == IF m = "inside" THEN 1..4 ELSE Associated(m)

Nudged(n, m, k) ==
    << IF 1 \in Moved(m) \cap Axis(k) THEN n[1] + Delta(k) ELSE n[1],
       IF 2 \in Moved(m) \cap Axis(k) THEN n[2] + Delta(k) ELSE n[2],
       IF 3 \in Moved(m) \cap Axis(k) THEN n[3] + Delta(k) ELSE n[3],
       IF 4 \in Moved(m) \cap Axis(k) THEN n[4] + Delta(k) ELSE n[4] >>

C9_ArrowNudge ==
    [][\A k \in Keysyms :
          (region_selected /\ start_x # None /\ ArrowKey(k, nudges + 1)) =>
              LET m == last_adjust_mode
                  e == Nudged(Region, m, k)
              IN  /\ Region' = (IF m # "inside" /\ (Width(e) < 10 \/ Height(e) < 10)
                                THEN Region
                                ELSE e)
                  /\ (m = "inside") =>
                        Width(Region') = Width(Region) /\ Height(Region') = Height(Region)
                  /\ (Region = <<100, 100, 400, 300>> /\ m = "tl" /\ k = "Left") =>
                        Region' = <<99, 100, 400, 300>>
                  /\ (m = "left" /\ k = "Up") => Region' = Region]_vars

\* Left was pressed with last adjust mode "tl" on the Region (100,100,400,300).
C9_Witness ==
    /\ pc = "session"
    /\ nudges = 1
    /\ region_selected
    /\ last_adjust_mode = "tl"
    /\ rect = <<99, 100, 400, 300>>

-----------------------------------------------------------------------------
(* C10: a pointer-up ending Selecting discards the selection when its        *)
(* normalized width or height is below 10 (no Region active or selected,     *)
(* mode Idle, history and cursor as before), and otherwise keeps it as the   *)
(* selected Region in mode Idle; the drag (50,50)-(55,52) is discarded.      *)

C10_PointerUpEndsSelecting ==
    [][\A x \in AllX, y \in AllY :
          (is_selecting /\ MouseUp(x, y)) =>
              LET n == Normalize(start_x, start_y, x, y) IN
              /\ Idle'
              /\ UNCHANGED hist
              /\ IF Width(n) < 10 \/ Height(n) < 10
                 THEN /\ start_x' = None /\ start_y' = None
                      /\ ~region_selected'
                      /\ display' = <<>>
                 ELSE /\ region_selected'
                      /\ Region' = n
                      /\ display' = n
              /\ (start_x = 50 /\ start_y = 50 /\ x = 55 /\ y = 52) =>
                    start_x' = None /\ ~region_selected']_vars

\* The drag (50,50)-(55,52) was released and discarded.
C10_Witness ==
    /\ pc = "session"
    /\ ~button_down
    /\ start_x = None
    /\ end_x = 55 /\ end_y = 52
    /\ ~region_selected
    /\ Idle
    /\ display = <<>>
    /\ capture_history = <<>>

-----------------------------------------------------------------------------
(* C11: a pointer-move during Resizing whose result would be narrower or     *)
(* lower than 10 is rejected as a whole -- all four stored coordinates stay  *)
(* as they were, also the one on the axis that would have been valid -- and  *)
(* so a Region of at least 10 x 10 stays at least 10 x 10 under resize moves.*)

\* The box n with the coordinates of handle h put at the pointer (x, y)
Dragged(n, h, x, y) ==
    << IF 1 \in Associated(h) THEN x ELSE n[1],
       IF 2 \in Associated(h) THEN y ELSE n[2],
       IF 3 \in Associated(h) THEN x ELSE n[3],
       IF 4 \in Associated(h) THEN y ELSE n[4] >>

C11_ResizeRejectedAsAWhole ==
    [][\A x \in AllX, y \in AllY :
          (is_resizing /\ ~is_selecting /\ MouseDrag(x, y)) =>
              LET d == Dragged(Region, resize_mode, x, y)
                  n == Normalize(d[1], d[2], d[3], d[4])
              IN  /\ (Width(n) < 10 \/ Height(n) < 10) => rect' = rect
                  /\ (Width(Region) >= 10 /\ Height(Region) >= 10) =>
                        (Width(Region') >= 10 /\ Height(Region') >= 10)]_vars

\* The bottom-right handle of (100,100,400,300) was dragged to (60,100): the
\* width would have been valid, the height not, and nothing moved.
C11_Witness ==
    /\ is_resizing /\ resize_mode = "br" /\ button_down
    /\ rect = <<100, 100, 400, 300>>
    /\ magnifier_box = source_box(ScreenWidth, ScreenHeight, 60, 100)

-----------------------------------------------------------------------------
(* C12: no step of the hotkey listener thread changes is_active, the Region, *)
(* the mode or the history, and none creates or destroys the overlay window, *)
(* the magnifier or the frozen bitmap: the producers only set request flags. *)

ListenerStep ==
    \/ PrintScreen
    \/ ListenerQuitFlag
    \/ \E returns \in BOOLEAN : ListenerQuitDeactivate(returns)

C12_ProducersOnlySetFlags ==
    [][ListenerStep =>
          UNCHANGED <<is_active, rect, flags, hist, root, magnifier_window,
                      bg_screenshot>>]_vars

-----------------------------------------------------------------------------
(* C13: a capture requested while no session is active and no quit is        *)
(* requested leads to the main loop starting a session, unless a quit or an  *)
(* interrupt comes first; the start clears capture_requested; and no session *)
(* is started while one is active.                                           *)

Exited == pc = "exited"

-----------------------------------------------------------------------------
(* C14: whenever the process has exited -- through the SIGINT handler, the   *)
(* overlay's Ctrl+C, the listener's quit shortcut followed by the end of the *)
(* loop, or an interrupt of the loop -- no session is active, the overlay    *)
(* window, the magnifier and the frozen bitmap are released and the          *)
(* single-instance socket is not listening any more.                         *)

C14_ExitTornDown ==
    Exited =>
        /\ ~is_active
        /\ ~root /\ ~magnifier_window /\ magnifier_box = <<>>
        /\ bg_screenshot = <<>>
        /\ socket # "listening"

\* The process has exited with a Region on the overlay and a commit in the
\* history: a teardown of the second session, the socket closed.
C14_Witness ==
    /\ Exited /\ socket = "closed" /\ should_quit
    /\ sessions = 2 /\ capture_history # <<>>
    /\ region_selected /\ last_restore = "none"

-----------------------------------------------------------------------------
(* C15: for every focus point inside the bitmap, the magnifier's source box  *)
(* after clamping lies within [0,width] x [0,height] of the bitmap and has   *)
(* side magnifier_size // zoom = 60 on both axes, whatever the bitmap's size.*)

SourceSide == magnifier_size \div magnifier_zoom

InBitmap(b, w, h) == 0 <= b[1] /\ b[3] <= w /\ 0 <= b[2] /\ b[4] <= h
FullSide(b) == Width(b) = SourceSide /\ Height(b) = SourceSide

C15_SourceBoxInBitmap ==
    magnifier_box # <<>> =>
        /\ InBitmap(magnifier_box, bg_screenshot[1], bg_screenshot[2])
        /\ FullSide(magnifier_box)

\* The same on bitmaps that are at least one source box wide and high, for
\* the box on show and for every focus of the grid that is on the bitmap.
C15_SourceBoxInLargeBitmap ==
    (/\ bg_screenshot # <<>>
     /\ bg_screenshot[1] >= SourceSide
     /\ bg_screenshot[2] >= SourceSide) =>
        /\ magnifier_box # <<>> =>
              /\ InBitmap(magnifier_box, bg_screenshot[1], bg_screenshot[2])
              /\ FullSide(magnifier_box)
        /\ \A f \in PointerMag :
              (f[1] < bg_screenshot[1] /\ f[2] < bg_screenshot[2]) =>
                  LET b == source_box(bg_screenshot[1], bg_screenshot[2], f[1], f[2])
                  IN  InBitmap(b, bg_screenshot[1], bg_screenshot[2]) /\ FullSide(b)

\* On the 100 x 80 bitmap the pointer is over the bottom-right handle at
\* (99,79): the box was shifted back inside on both axes.
C15_Witness ==
    /\ bg_screenshot = <<100, 80>>
    /\ region_selected /\ Idle
    /\ Region[3] = 99 /\ Region[4] = 79
    /\ magnifier_box = <<40, 20, 100, 80>>

-----------------------------------------------------------------------------
(* C16: in a session that follows one ended by Enter or Escape, when the     *)
(* delayed restore runs before any user input, the active Region becomes the *)
(* Region the ending action committed, it is marked selected and no mode     *)
(* flag is set.                                                              *)

\* A session as activate_capture_mode left it: no input has been handled.
Fresh ==
    /\ pc = "session" /\ restore_timer
    /\ start_x = None /\ end_x = None
    /\ ~region_selected /\ Idle /\ ~button_down

C16_AutoRestoreLoadsLastCommit ==
    [][(Fresh /\ last_commit # <<>> /\ RestoreTimer) =>
          (Region' = last_commit /\ region_selected' /\ Idle')]_vars

\* A later session in which the timer restored (100,100,400,300), which is
\* not the last entry of the history: the previous session ended on it.
C16_Witness ==
    /\ pc = "session" /\ sessions >= 3
    /\ last_restore = "timer" /\ ~restore_timer
    /\ Len(capture_history) >= 2
    /\ last_commit = capture_history[1]
    /\ rect = last_commit /\ region_selected /\ Idle

-----------------------------------------------------------------------------
(* C17: after Previous, Next or Restore-last on a non-empty history, invoked *)
(* in any mode (also in the middle of a Selecting, Resizing or Moving drag), *)
(* no mode flag is set and the loaded Region is marked selected.             *)

C17_NavigationEndsIdle ==
    [][(capture_history # <<>> /\ (BackSpace \/ Tab \/ RestoreTimer)) =>
          (Idle' /\ region_selected')]_vars

-----------------------------------------------------------------------------
(* C18: restore-last called twice in a row gives the same Region and the     *)
(* same cursor both times: in the state a restore leaves, a restore would    *)
(* load the Region that is already active and keep the cursor; on an empty   *)
(* history it loads nothing and changes neither Region, mode nor cursor.     *)

C18_RestoreIdempotent ==
    [][RestoreTimer =>
          IF capture_history # <<>>
          THEN /\ region_selected'
               /\ restore_index' = capture_history_index'
               /\ restore_entry' = rect'
               /\ UNCHANGED capture_history
          ELSE ProgramUnchanged]_vars

\* The restore loaded an entry of a history with more than one entry.
C18_Witness ==
    /\ last_restore = "timer"
    /\ Len(capture_history) >= 2
    /\ region_selected
    /\ rect = capture_history[capture_history_index + 1]

-----------------------------------------------------------------------------
(* C19: at most one of the Selecting, Resizing and Moving flags is set in    *)
(* every reachable state, and a resize handle is recorded only while the     *)
(* Resizing flag is set.                                                     *)

-----------------------------------------------------------------------------
(* C20: a pointer-down at (x,y) starts Selecting with both corners at (x,y)  *)
(* and the previous Region dropped when no Region is selected or (x,y) is    *)
(* classified null; starts Moving with the offset of (x,y) from the          *)
(* normalized top-left when classified inside; otherwise starts Resizing     *)
(* with that handle, recorded as last adjust mode.  Moving and Resizing      *)
(* leave the Region as it is.                                                *)

C20_PointerDown ==
    [][\A x \in AllX, y \in AllY :
          MouseDown(x, y, downs + 1) =>
              LET mode == get_resize_mode(x, y) IN
              IF ~region_selected \/ mode = "None"
              THEN /\ is_selecting' /\ ~is_resizing' /\ ~is_moving'
                   /\ rect' = <<x, y, x, y>>
                   /\ ~region_selected'
                   /\ display' = <<>>
              ELSE IF mode = "inside"
              THEN /\ is_moving' /\ ~is_selecting' /\ ~is_resizing'
                   /\ move_offset_x' = x - Region[1]
                   /\ move_offset_y' = y - Region[2]
                   /\ rect' = rect
              ELSE /\ is_resizing' /\ ~is_selecting' /\ ~is_moving'
                   /\ resize_mode' = mode
                   /\ last_adjust_mode' = mode
                   /\ rect' = rect]_vars

\* A Region selected up and to the left was taken hold of inside, at (100,100).
C20_Witness ==
    /\ is_moving /\ button_down
    /\ rect = <<400, 300, 50, 50>>
    /\ move_start_x = 100 /\ move_start_y = 100
    /\ move_offset_x = 50 /\ move_offset_y = 50

-----------------------------------------------------------------------------
(* C21: for a selected Region, get_resize_mode returns the first match in    *)
(* the order tl, tr, bl, br (both distances to the corner <= 10), left,      *)
(* right, top, bottom (distance to the edge line <= 10, the point within the *)
(* closed span of the other axis), inside (closed containment), else null;   *)
(* with no Region selected it returns null for every point.                  *)

ModeOrder == <<"tl", "tr", "bl", "br", "left", "right", "top", "bottom", "inside">>

Near(a, b) == Abs(a - b) <= 10
Spans(lo, v, hi) == lo <= v /\ v <= hi

\* Whether the point (x, y) meets the test of mode m on the normalized box n
Meets(m, n, x, y) ==
    CASE m = "tl"     -> Near(x, n[1]) /\ Near(y, n[2])
      [] m = "tr"     -> Near(x, n[3]) /\ Near(y, n[2])
      [] m = "bl"     -> Near(x, n[1]) /\ Near(y, n[4])
      [] m = "br"     -> Near(x, n[3]) /\ Near(y, n[4])
      [] m = "left"   -> Near(x, n[1]) /\ Spans(n[2], y, n[4])
      [] m = "right"  -> Near(x, n[3]) /\ Spans(n[2], y, n[4])
      [] m = "top"    -> Near(y, n[2]) /\ Spans(n[1], x, n[3])
      [] m = "bottom" -> Near(y, n[4]) /\ Spans(n[1], x, n[3])
      [] m = "inside" -> Spans(n[1], x, n[3]) /\ Spans(n[2], y, n[4])

FirstMatch(n, x, y) ==
    LET hits == {i \in 1..Len(ModeOrder) : Meets(ModeOrder[i], n, x, y)}
    IN  IF hits = {} THEN "None"
        ELSE ModeOrder[CHOOSE i \in hits : \A j \in hits : i <= j]

\* The points classified in every state: the pointer positions and points
\* up to 11 px off them.
ClassifyPoints ==
    Pointer \cup {<<p[1] + d, p[2] + e>> : p \in {<<100, 100>>, <<400, 300>>},
                                          d \in {-11, -10, 10, 11}, e \in {-11, 0, 10}}

C21_ClassifyFirstMatch ==
    \A p \in ClassifyPoints :
        get_resize_mode(p[1], p[2]) =
            (IF region_selected /\ start_x # None
             THEN FirstMatch(Region, p[1], p[2])
             ELSE "None")

\* The Region (50,50,60,100) is selected: the point (55,52) meets the tests
\* of both upper corners and of two edges, and is classified as tl.
C21_Witness ==
    /\ region_selected /\ Region = <<50, 50, 60, 100>>
    /\ Meets("tr", Region, 55, 52) /\ Meets("left", Region, 55, 52)
    /\ get_resize_mode(55, 52) = "tl"
    /\ get_resize_mode(100, 100) = "None"

-----------------------------------------------------------------------------
(* C30: every selected Region of at least 10 x 10 has a pointer position     *)
(* that get_resize_mode classifies as inside, so that a pointer-down there   *)
(* starts Moving; also Regions between 10 and 20 px wide or high.            *)

C30_MovableByPointer ==
    (region_selected /\ Idle /\ Width(Region) >= MinSize /\ Height(Region) >= MinSize) =>
        \E x \in Region[1]..Region[3], y \in Region[2]..Region[4] :
            get_resize_mode(x, y) = "inside"

-----------------------------------------------------------------------------
(* C28: the history list is changed only by a commit (Enter, Escape) and the *)
(* cursor only by a commit and by Previous/Next: pointer-down, move and up,  *)
(* arrow keys (with the restore they may trigger), the info and help toggles *)
(* and their redraws leave both as they are, and no stored entry is altered. *)

PointerStep ==
    \E p \in PointerView :
        \/ MouseDown(p[1], p[2], MaxDowns)
        \/ MouseDrag(p[1], p[2])
        \/ MouseUp(p[1], p[2])

CommitStep == \E ok \in BOOLEAN : Return(ok) \/ Escape(ok)

C28_HistoryChangedOnlyByCommit ==
    [][/\ PointerStep => UNCHANGED hist
       /\ (\E k \in Keysyms : ArrowKey(k, MaxNudges)) => UNCHANGED hist
       /\ (ToggleInfo \/ ToggleHelp) => UNCHANGED hist
       /\ (BackSpace \/ Tab) => UNCHANGED capture_history
       /\ capture_history' # capture_history => CommitStep
       /\ capture_history_index' # capture_history_index =>
              (CommitStep \/ BackSpace \/ Tab)
       /\ IsPrefix(capture_history, capture_history')]_vars

\* Third session: the history holds two entries with the cursor on the
\* second; an arrow key restored that entry and moved the active Region one
\* pixel off it.
C28_Witness ==
    /\ sessions = 3 /\ last_restore = "arrow"
    /\ Len(capture_history) = 2 /\ capture_history_index = 1
    /\ region_selected /\ Region # capture_history[2]
    /\ \/ Region[1] = capture_history[2][1] + 1
       \/ Region[1] = capture_history[2][1] - 1
       \/ Region[2] = capture_history[2][2] + 1
       \/ Region[2] = capture_history[2][2] - 1

-----------------------------------------------------------------------------
(* C29: in every reachable state the cursor is -1 exactly when the history   *)
(* is empty and otherwise 0 <= cursor < len(history): the "cursor unset"     *)
(* branches of Previous, Next and Restore-last are never taken with a        *)
(* non-empty history, and history[cursor] is a valid access.                 *)

C29_CursorInRange ==
    /\ (capture_history_index = -1) = (capture_history = <<>>)
    /\ capture_history # <<>> =>
          /\ capture_history_index \in 0..(Len(capture_history) - 1)
          /\ restore_index = capture_history_index
          /\ restore_entry = capture_history[capture_history_index + 1]

\* Three entries; a commit of the first one in an earlier session took the
\* cursor back to it, and the restore timer loaded it from there.
C29_Witness ==
    /\ pc = "session"
    /\ Len(capture_history) = 3 /\ capture_history_index = 0
    /\ rect = capture_history[1] /\ last_restore = "timer"

-----------------------------------------------------------------------------
(* C27: the start of a session clears the Region, the mode flags, the        *)
(* selected mark and sets the last adjust mode to "inside", and leaves the   *)
(* history and the cursor as the previous session left them; the end of a    *)
(* session, after save, copy or cancel, changes neither beyond the commit of *)
(* the ending action, and nothing changes them between two sessions.         *)

C27_SessionFrame ==
    [][/\ (~is_active /\ is_active') =>
              /\ rect' = <<None, None, None, None>>
              /\ Idle' /\ resize_mode' = "None"
              /\ ~region_selected'
              /\ last_adjust_mode' = "inside"
              /\ UNCHANGED hist
       /\ (\E confirmed \in BOOLEAN : SaveDialog(confirmed)) => UNCHANGED hist
       /\ (\E ok \in BOOLEAN : Escape(ok)) =>
              IF start_x # None /\ end_x # None
              THEN Commits(Region)
              ELSE UNCHANGED capture_history
       /\ ~is_active => UNCHANGED hist]_vars

\* A session has just started, nothing has fired yet, and the history still
\* has its two entries with the cursor on the first.
C27_Witness ==
    /\ Fresh /\ magnifier_timer /\ sessions >= 3
    /\ Len(capture_history) = 2 /\ capture_history_index = 0

-----------------------------------------------------------------------------
(* C25: after a redraw for a normalized Region there are at most four dim    *)
(* rectangles, no two of them overlap, and every pixel of the screen lies    *)
(* either in the Region or in exactly one dim rectangle; also for a Region   *)
(* partly or wholly off the screen and for one of zero width or height.      *)

\* A box covers the pixels from its left and top edge up to, not including,
\* its right and bottom edge.
Covers(b, x, y) == b[1] <= x /\ x < b[3] /\ b[2] <= y /\ y < b[4]

\* Two boxes share no pixel
Disjoint(a, b) ==
    \/ Max(a[1], b[1]) >= Min(a[3], b[3])
    \/ Max(a[2], b[2]) >= Min(a[4], b[4])

\* The columns (rows) of a screen of size s next to every edge of the box
\* between lo and hi: the coverage is the same for all pixels between them.
Probes(lo, hi, s) == {0, s - 1, lo - 1, lo, hi - 1, hi} \cap (0..(s - 1))

ExactMask(n, w, h) ==
    LET d == dark_rects(n, w, h) IN
    /\ Len(d) <= 4
    /\ \A i, j \in 1..Len(d) : i < j => Disjoint(d[i], d[j])
    /\ \A x \in Probes(n[1], n[3], w), y \in Probes(n[2], n[4], h) :
          Cardinality({i \in 1..Len(d) : Covers(d[i], x, y)})
              = (IF Covers(n, x, y) THEN 0 ELSE 1)

\* Boxes a move or a run of nudges can leave on a screen of w x h: off every
\* edge, across every edge, wholly outside, and of zero width or height.
Strays(w, h) ==
    {<<-20, -20, -5, -5>>, <<-20, 10, -5, 30>>, <<w + 5, 10, w + 20, 30>>,
     <<10, -20, 30, -5>>, <<10, h + 5, 30, h + 20>>, <<w + 5, h + 5, w + 20, h + 20>>,
     <<-10, -10, w + 10, h + 10>>, <<-10, 10, 20, 30>>, <<w - 10, h - 10, w + 10, h + 10>>,
     <<0, 0, w, h>>, <<20, 10, 20, 30>>, <<10, 20, 30, 20>>, <<0, 0, 0, 0>>, <<w, h, w, h>>}

C25_MaskExact ==
    /\ display # <<>> => ExactMask(display, screen[1], screen[2])
    /\ \A n \in Strays(screen[1], screen[2]) : ExactMask(n, screen[1], screen[2])

\* On the 100 x 80 screen the mask is drawn for a Region moved across the
\* right and the bottom edge: two dim rectangles, above and left of it.
C25_Witness ==
    /\ screen = <<100, 80>> /\ is_moving
    /\ display = Region /\ display[3] > 100 /\ display[4] > 80
    /\ display[1] > 0 /\ display[2] > 0
    /\ Len(dark_rects(display, 100, 80)) = 2

\* C26: in a session with no drag in progress and no auto-hide timer pending,
\* a pointer whose position is not classified as a resize handle of the
\* current Region has no magnifier shown.
C26_HiddenOffHandle ==
    (/\ pc = "session"
     /\ Idle
     /\ ~hide_magnifier_timer
     /\ pointer # <<>>
     /\ get_resize_mode(pointer[1], pointer[2]) \notin Handles)
        => magnifier_box = <<>>

-----------------------------------------------------------------------------
(* C22: a pass of the loop body calls the capture-request callback if and    *)
(* only if a connection was accepted on the listening socket and the data    *)
(* received is exactly the token. The request then starts a session in the   *)
(* same pass. After other data, a reset connection, an accept timeout or an  *)
(* accept on a closed socket the flag is as before, no session is started by *)
(* the socket, and the process is still in its loop.                         *)

\* A pass of the loop body: the only step that leaves the body without
\* ending the process
BodyStep == pc = "body" /\ pc' \notin {"body", "exited"}

C22_FlagIffToken ==
    [][BodyStep =>
          LET accepted == socket = "listening" /\ backlog # <<>>
              token    == accepted /\ Head(backlog) = "ACTIVATE_CAPTURE"
          IN  /\ signalled' = token
              /\ backlog' = (IF accepted THEN Tail(backlog) ELSE backlog)
              /\ pc' \in {"poll", "session"}
              /\ (pc' = "session") = (token \/ capture_requested)
              /\ pc' = "session" => is_active' /\ ~capture_requested'
              /\ pc' = "poll" =>
                    UNCHANGED <<capture_requested, is_active, sessions, socket,
                                should_quit>>]_vars

\* The token of a second launch was accepted, the callback was called and
\* the pass started the second session.
C22_Witness ==
    /\ signalled /\ pc = "session" /\ is_active /\ sessions = 2
    /\ other_instance = "returned" /\ backlog = <<>>
    /\ socket = "listening"

-----------------------------------------------------------------------------
(* C23: a launch that finds the port held by another instance leaves run()  *)
(* without a session and without a listening socket of its own, after one   *)
(* call of signal_existing_instance; and at no time do this process and the *)
(* other instance both run capture sessions (the other instance runs its    *)
(* sessions while it is "running").                                         *)

\* The step that takes a process out of run()'s first test while another
\* instance holds the port
SecondLaunchStep == pc = "start" /\ other_instance = "running" /\ pc' # "start"

\* The part about the launch itself
SecondLaunchReturns ==
    /\ [][SecondLaunchStep =>
             /\ pc' = "exited"
             /\ ~is_active' /\ sessions' = 0 /\ root' = FALSE
             /\ socket' # "listening"
             /\ signal_attempts' <= 1]_vars
    /\ [](signal_attempts > 0 =>
             /\ Exited /\ signal_attempts = 1
             /\ ~is_active /\ sessions = 0 /\ socket = "unbound")

C23_OneProcessRunsSessions ==
    /\ SecondLaunchReturns
    /\ [](~(is_active /\ other_instance = "running"))

-----------------------------------------------------------------------------
(* C24: while the save dialog opened by Enter is showing, no step of any    *)
(* actor changes the frozen bitmap, the start and end points of the         *)
(* committed Region, or the history and its cursor.                         *)

C24_DialogFreezesSession ==
    [][pc = "dialog" /\ pc' = "dialog" =>
          UNCHANGED <<bg_screenshot, start_x, start_y, end_x, end_y,
                      capture_history, capture_history_index>>]_vars

-----------------------------------------------------------------------------
(* C31: when the restore timer of the session start fires while a selection *)
(* is being drawn (mode Selecting), the anchor, the free corner and the     *)
(* mode of that selection are as the user set them.                         *)

\* The after(200, ...) callback runs while the overlay takes input
RestoreTimerStep ==
    /\ pc = "session" /\ pc' = "session"
    /\ restore_timer /\ ~restore_timer'

C31_TimerKeepsDrawing ==
    [][RestoreTimerStep /\ is_selecting =>
          UNCHANGED <<start_x, start_y, end_x, end_y, is_selecting,
                      region_selected>>]_vars

-----------------------------------------------------------------------------
(* C32: while a session is active no capture request is recorded:           *)
(* capture_requested is false in every state with is_active, whatever the   *)
(* order of the steps of the listener thread and of the main thread.        *)

C32_NoRequestInSession == is_active => ~capture_requested

-----------------------------------------------------------------------------
(* C33: once the listener's quit shortcut has set should_quit, no step of   *)
(* the polling loop starts a capture session, whether or not                *)
(* capture_requested is set.                                                *)

C33_NoSessionAfterQuit ==
    [][should_quit /\ pc \in {"poll", "body"} =>
          ~(~is_active /\ is_active') /\ sessions' = sessions]_vars

====
